---- MODULE Spec2Model ----
(***************************************************************************)
(* Model of mineral.window_manager.WindowManager: the window registry, the *)
(* current/last pointers, the three global hooks and the lifecycle hooks   *)
(* the manager invokes.  Hooks are user code: while a hook runs it may     *)
(* call back into the manager (a nested call), return, or raise.  The      *)
(* Python call stack is the variable "stack"; a manager method that        *)
(* invokes hooks is a frame whose pc is the next statement to execute.     *)
(* mineral.app.App.run, the render loop that drives the current window,    *)
(* is a frame of the same stack.                                           *)
(***************************************************************************)
EXTENDS Integers, Sequences, FiniteSets, TLC

\* ------------------------------------------------------------------ bounds
MaxInst == 2     \* window instances constructed in one run
MaxNested == 1   \* manager calls made by hooks during one outermost call
MaxParams == 3   \* parameters of a callable assigned to a global hook
MaxBulk == 3     \* window types given to one load_windows call
MaxUpdates == 3  \* on_update calls made by one run of the render loop

\* --------------------------------------------------------------- constants
_GLOBAL_ON_SETUP_ARGS == 1
_GLOBAL_ON_ENTER_ARGS == 2
_GLOBAL_ON_LEAVE_ARGS == 2
_KW_CONSIDER == <<"VAR_KEYWORD", "KEYWORD_ONLY">>

\* inspect.Parameter kinds (members of an IntEnum)
POSITIONAL_OR_KEYWORD == 1
VAR_POSITIONAL == 2
KEYWORD_ONLY == 3
VAR_KEYWORD == 4

\* Concrete window classes of the host application.  Menu is named after
\* itself (Window.__init_subclass__ without window_name), GameWindow is
\* declared with window_name="Game".  Plain is a class that does not derive
\* from Window.
WindowTypes == {"Menu", "GameWindow"}
Types == WindowTypes \cup {"Plain"}

\* cls.window_name = window_name or cls.__name__
window_name(cls) == IF cls = "GameWindow" THEN "Game" ELSE cls

issubclass_Window(cls) == cls \in WindowTypes

Names == {window_name(c) : c \in WindowTypes}

\* Callables the host may try to install as global hooks, by signature.
NoHook == <<0>>
Callables == { <<POSITIONAL_OR_KEYWORD>>,
               <<KEYWORD_ONLY>>,
               <<POSITIONAL_OR_KEYWORD, POSITIONAL_OR_KEYWORD>> }

HookNames == {"global_on_setup", "global_on_enter", "global_on_leave"}

\* Every signature a Python callable of at most MaxParams parameters can
\* have: parameters in the order positional, *args, keyword-only, **kwargs,
\* with at most one *args and at most one **kwargs.
Signatures ==
    { s \in UNION { [1..n -> {POSITIONAL_OR_KEYWORD, VAR_POSITIONAL,
                               KEYWORD_ONLY, VAR_KEYWORD}] : n \in 0..MaxParams } :
        /\ \A i \in 1..Len(s), j \in 1..Len(s) : i < j => s[i] <= s[j]
        /\ Cardinality({j \in 1..Len(s) : s[j] = VAR_POSITIONAL}) <= 1
        /\ Cardinality({j \in 1..Len(s) : s[j] = VAR_KEYWORD}) <= 1 }

VARIABLES
    windows,       \* self._windows: dict name -> instance id
    instances,     \* instances[i] = class of the i-th constructed instance
    current,       \* self._current_window (0 = None)
    last,          \* self._last_window (0 = None)
    hooks,         \* self._global_on_setup / _enter / _leave
    stack,         \* call stack of manager methods and running hooks
    log,           \* user code invoked since the outermost call began
    ret,           \* outcome of the call that finished most recently
    nested,        \* manager calls made by hooks since the outermost call began
    raised,        \* an exception was raised since the outermost call began
    changes,       \* change_window calls that found their window (2 = two or more)
    transitions,   \* change_window calls that returned (2 = two or more)
    is_running,    \* self.is_running
    global_on_update   \* the manager's global on_update hook

vars == <<windows, instances, current, last, hooks, stack, log, ret, nested,
          raised, changes, transitions, is_running, global_on_update>>

\* ------------------------------------------------------------------ helpers
EmptyDict == [n \in {} |-> 0]

DictSet(d, k, v) == [n \in (DOMAIN d) \cup {k} |-> IF n = k THEN v ELSE d[n]]

DictDel(d, k) == [n \in (DOMAIN d) \ {k} |-> d[n]]

Top == stack[Len(stack)]

Pop(stk) == SubSeq(stk, 1, Len(stk) - 1)

SetTop(stk, f) == [stk EXCEPT ![Len(stk)] = f]

\* A frame of the call stack.  args are the window types a load_windows call
\* was given, types those it has not processed yet.
Frame(op, pc, name, args, force) ==
    [op |-> op, pc |-> pc, name |-> name, args |-> args, types |-> args,
     force |-> force]

HookFrame == Frame("hook", "run", "", <<>>, FALSE)

\* An invocation of user code: a global hook h(a, b), a window method a.h(b),
\* or the constructor call that made instance a.
Event(h, a, b) == [h |-> h, a |-> a, b |-> b]

\* Outcome of a finished call: status is "ok" or the exception raised, cls the
\* class and inst the instance returned, error the attributes an exception
\* of errors.py was given.
Ret(op, name, args, force, status, cls, inst) ==
    [op |-> op, name |-> name, args |-> args, force |-> force,
     status |-> status, cls |-> cls, inst |-> inst, error |-> EmptyDict]

NoRet == Ret("none", "", <<>>, FALSE, "none", "", 0)

\* The caller of the manager: the host application, or a running hook.
Host == stack = <<>>

InHook == IF stack = <<>> THEN FALSE
          ELSE Top.op = "hook" /\ nested < MaxNested

\* What a call does to the record of the outermost call.
CallLog == IF stack = <<>> THEN <<>> ELSE log

CallNested == IF stack = <<>> THEN 0 ELSE nested + 1

CallRaised == IF stack = <<>> THEN FALSE ELSE raised

\* An exception leaves the frame on top of stk.  reload_window has no handler,
\* so an exception of its load_windows call leaves reload_window as well; the
\* exception then reaches the hook that made the call, or the host.
RaiseStack(stk) ==
    IF Len(stk) >= 2 /\ stk[Len(stk) - 1].op = "reload_window"
    THEN SubSeq(stk, 1, Len(stk) - 2)
    ELSE Pop(stk)

RaiseRet(stk, status) ==
    LET f == IF Len(stk) >= 2 /\ stk[Len(stk) - 1].op = "reload_window"
             THEN stk[Len(stk) - 1]
             ELSE stk[Len(stk)]
    IN Ret(f.op, f.name, f.args, f.force, status, "", 0)

\* BaseError.__init__: last_state, then one attribute per keyword argument.
BaseError(last_state, kwargs) == [last_state |-> last_state] @@ kwargs

\* Mutation: the errors are given the current window.
ErrorKwargs_current == [last_window |-> current]

\* The keyword arguments the manager gives the errors it raises.
ErrorKwargs == [last_window |-> last]

\* The outcome r of a call that raised WindowError or WindowLoadError; the
\* manager does not pass last_state, which keeps its default None.
ManagerError(r) == [r EXCEPT !.error = BaseError(0, ErrorKwargs)]

\* Python's == between a member of inspect._ParameterKind (an IntEnum) and a
\* str: the operands are of different types and never compare equal.
PyEqKindStr(kind, str) == FALSE

_get_kw_args(signature) ==
    Cardinality({j \in 1..Len(signature) :
        \E k \in 1..Len(_KW_CONSIDER) : PyEqKindStr(signature[j], _KW_CONSIDER[k])})

_get_pos_args(signature) ==
    Cardinality({j \in 1..Len(signature) :
        ~ \E k \in 1..Len(_KW_CONSIDER) : PyEqKindStr(signature[j], _KW_CONSIDER[k])})

ExpectedArgs(hook) ==
    CASE hook = "global_on_setup" -> _GLOBAL_ON_SETUP_ARGS
      [] hook = "global_on_enter" -> _GLOBAL_ON_ENTER_ARGS
      [] hook = "global_on_leave" -> _GLOBAL_ON_LEAVE_ARGS

\* Mutation: the setter rejects only a callable with too many parameters.
SetterRejects_toomany(hook, value) ==
    Len(value) > ExpectedArgs(hook) \/ _get_kw_args(value) # 0

\* The condition under which a global hook setter raises TypeError.
SetterRejects(hook, value) ==
    Len(value) # ExpectedArgs(hook) \/ _get_kw_args(value) # 0

\* Python's binding of n positional arguments to a callable: every
\* positional parameter is filled, and a keyword-only parameter is missing.
BindsPositional(signature, n) ==
    /\ Cardinality({j \in 1..Len(signature) :
            signature[j] = POSITIONAL_OR_KEYWORD}) = n
    /\ \A j \in 1..Len(signature) : signature[j] # KEYWORD_ONLY

\* ---------------------------------------------------------------- __init__
Init ==
    /\ windows = EmptyDict
    /\ instances = <<>>
    /\ current = 0
    /\ last = 0
    /\ hooks = [h \in HookNames |-> NoHook]
    /\ stack = <<>>
    /\ log = <<>>
    /\ ret = NoRet
    /\ nested = 0
    /\ raised = FALSE
    /\ changes = 0
    /\ transitions = 0
    /\ is_running = TRUE
    /\ global_on_update = NoHook

\* ------------------------------------------------------- hook invocations
AtPc(op, pc) == IF stack = <<>> THEN FALSE ELSE Top.op = op /\ Top.pc = pc

\* The frame on top moves to nextpc and calls a hook: the invocation is
\* recorded and the hook starts running.
Invoke(ev, nextpc) ==
    /\ stack' = Append(SetTop(stack, [Top EXCEPT !.pc = nextpc]), HookFrame)
    /\ log' = Append(log, ev)
    /\ UNCHANGED <<ret, raised>>

\* The frame on top moves to nextpc without calling anything.
Skip(nextpc) ==
    /\ stack' = SetTop(stack, [Top EXCEPT !.pc = nextpc])
    /\ UNCHANGED <<log, ret, raised>>

\* The frame on top raises.
Raise(status) ==
    /\ stack' = RaiseStack(stack)
    /\ ret' = RaiseRet(stack, status)
    /\ raised' = TRUE
    /\ UNCHANGED log

\* The frame on top raises one of the errors of errors.py.
RaiseError(status) ==
    /\ stack' = RaiseStack(stack)
    /\ ret' = ManagerError(RaiseRet(stack, status))
    /\ raised' = TRUE
    /\ UNCHANGED log

\* A global hook is called with n positional arguments; a callable that
\* cannot bind them raises TypeError out of the calling method.
InvokeGlobal(hook, a, b, n, nextpc) ==
    IF BindsPositional(hooks[hook], n)
    THEN Invoke(Event(hook, a, b), nextpc)
    ELSE Raise("TypeError")

\* A running hook returns to the method that called it.
HookReturn ==
    /\ AtPc("hook", "run")
    /\ stack' = Pop(stack)
    /\ UNCHANGED <<windows, instances, current, last, hooks, log, ret, nested,
                   raised, changes,
                   transitions, is_running, global_on_update>>

\* A running hook raises; the method that called it has no handler.
HookRaise ==
    /\ AtPc("hook", "run")
    /\ stack' = RaiseStack(Pop(stack))
    /\ ret' = RaiseRet(Pop(stack), "HookError")
    /\ raised' = TRUE
    /\ UNCHANGED <<windows, instances, current, last, hooks, log, nested,
                   changes,
                   transitions, is_running, global_on_update>>

\* ------------------------------------------------------ global hook setters
SetGlobalHook(hook, value) ==
    /\ log' = CallLog
    /\ nested' = CallNested
    /\ IF SetterRejects(hook, value)
       THEN /\ ret' = Ret(hook, "", value, FALSE, "TypeError", "", 0)
            /\ raised' = TRUE
            /\ UNCHANGED hooks
       ELSE /\ ret' = Ret(hook, "", value, FALSE, "ok", "", 0)
            /\ raised' = CallRaised
            /\ hooks' = [hooks EXCEPT ![hook] = value]
    /\ UNCHANGED <<windows, instances, current, last, stack, changes,
                   transitions, is_running, global_on_update>>

\* ---------------------------------------------------- read-only properties
\* The setters of current_window, last_window and window_map raise
\* ValueError whatever the value assigned.
ReadOnlySetter(attr) ==
    /\ log' = CallLog
    /\ nested' = CallNested
    /\ ret' = Ret(attr, "", <<>>, FALSE, "ValueError", "", 0)
    /\ raised' = TRUE
    /\ UNCHANGED <<windows, instances, current, last, hooks, stack, changes,
                   transitions, is_running, global_on_update>>

\* Mutation: the setter stores the value.
SetCurrentWindow_assigns(value) ==
    /\ log' = CallLog
    /\ nested' = CallNested
    /\ ret' = Ret("current_window", "", <<>>, FALSE, "ok", "", 0)
    /\ raised' = CallRaised
    /\ current' = value
    /\ UNCHANGED <<windows, instances, last, hooks, stack, changes,
                   transitions, is_running, global_on_update>>

\* Lines 74-78.
SetCurrentWindow(value) == ReadOnlySetter("current_window")

\* Lines 233-235.
SetLastWindow(value) == ReadOnlySetter("last_window")

\* Lines 246-248.
SetWindowMap(value) == ReadOnlySetter("window_map")

\* ------------------------------------------------------------ change_window
\* Line 262.
change_window_found(name) == name \in DOMAIN windows

\* Mutation: line 269 is missing, last_window keeps its old value.
change_window_last_stale == last

\* Line 269.
change_window_last == current

\* Mutation: line 270 is missing, current_window keeps its old value.
change_window_current_stale(name) == current

\* Line 270.
change_window_current(name) == windows[name]

\* Mutation: line 263 raises the loading error instead.
change_window_raises_load == "WindowLoadError"

\* Line 263: the exception raised for a name that is not loaded.
change_window_raises == "WindowError"

\* Lines 262-270: the lookup, and both pointer updates.
ChangeWindow(name) ==
    /\ log' = CallLog
    /\ nested' = CallNested
    /\ IF ~ change_window_found(name)
       THEN /\ ret' = ManagerError(Ret("change_window", name, <<>>, FALSE,
                                       change_window_raises, "", 0))
            /\ raised' = TRUE
            /\ UNCHANGED <<current, last, stack, changes>>
       ELSE /\ last' = change_window_last
            /\ current' = change_window_current(name)
            /\ stack' = Append(stack,
                   Frame("change_window", "global_on_leave", name, <<>>, FALSE))
            /\ ret' = NoRet
            /\ raised' = CallRaised
            /\ changes' = IF changes = 0 THEN 1 ELSE 2
    /\ UNCHANGED <<windows, instances, hooks,
                   transitions, is_running, global_on_update>>

\* Mutation: lines 274-275 and 277-278 are exchanged.
change_window_next_swapped(pc) ==
    CASE pc = "global_on_leave" -> "global_on_enter"
      [] pc = "global_on_enter" -> "on_leave"
      [] pc = "on_leave" -> "on_enter"
      [] pc = "on_enter" -> "return"

\* Mutation: lines 277-278 are missing, global on_enter is not called.
change_window_next_noglobalenter(pc) ==
    CASE pc = "global_on_leave" -> "on_leave"
      [] pc = "on_leave" -> "on_enter"
      [] pc = "global_on_enter" -> "on_enter"
      [] pc = "on_enter" -> "return"

\* The statement that follows each statement of change_window.
change_window_next(pc) ==
    CASE pc = "global_on_leave" -> "on_leave"
      [] pc = "on_leave" -> "global_on_enter"
      [] pc = "global_on_enter" -> "on_enter"
      [] pc = "on_enter" -> "return"

\* Lines 271-272.
ChangeGlobalLeave ==
    /\ AtPc("change_window", "global_on_leave")
    /\ IF hooks["global_on_leave"] # NoHook
       THEN InvokeGlobal("global_on_leave", last, current,
                         _GLOBAL_ON_LEAVE_ARGS, change_window_next(Top.pc))
       ELSE Skip(change_window_next(Top.pc))
    /\ UNCHANGED <<windows, instances, current, last, hooks, nested, changes,
                   transitions, is_running, global_on_update>>

\* Mutation: line 274 does not test last_window.
on_leave_guard_always == TRUE

\* Mutation: line 274 also requires the two windows to differ.
on_leave_guard_distinct == last # 0 /\ last # current

\* Line 274.
on_leave_guard == last # 0

\* Lines 274-275.
ChangeLeave ==
    /\ AtPc("change_window", "on_leave")
    /\ IF on_leave_guard
       THEN Invoke(Event("on_leave", last, current), change_window_next(Top.pc))
       ELSE Skip(change_window_next(Top.pc))
    /\ UNCHANGED <<windows, instances, current, last, hooks, nested, changes,
                   transitions, is_running, global_on_update>>

\* Lines 277-278.
ChangeGlobalEnter ==
    /\ AtPc("change_window", "global_on_enter")
    /\ IF hooks["global_on_enter"] # NoHook
       THEN InvokeGlobal("global_on_enter", current, last,
                         _GLOBAL_ON_ENTER_ARGS, change_window_next(Top.pc))
       ELSE Skip(change_window_next(Top.pc))
    /\ UNCHANGED <<windows, instances, current, last, hooks, nested, changes,
                   transitions, is_running, global_on_update>>

\* Line 279.
ChangeEnter ==
    /\ AtPc("change_window", "on_enter")
    /\ Invoke(Event("on_enter", current, last), change_window_next(Top.pc))
    /\ UNCHANGED <<windows, instances, current, last, hooks, nested, changes,
                   transitions, is_running, global_on_update>>

\* change_window returns None.
ChangeReturn ==
    /\ AtPc("change_window", "return")
    /\ stack' = Pop(stack)
    /\ ret' = Ret("change_window", Top.name, <<>>, FALSE, "ok", "", 0)
    /\ UNCHANGED <<windows, instances, current, last, hooks, log, nested,
                   raised, changes,
                   is_running, global_on_update>>
    /\ transitions' = IF transitions = 0 THEN 1 ELSE 2

\* ------------------------------------------------------------ unload_window
\* Mutation: lines 432-441 are missing, the current window is not protected.
unload_window_status_unguarded(name, force) ==
    IF name \notin DOMAIN windows THEN "WindowLoadError" ELSE "ok"

\* Mutation: line 437 raises the loading error instead.
unload_window_status_loaderror(name, force) ==
    IF name \notin DOMAIN windows
    THEN "WindowLoadError"
    ELSE IF ~ force /\ current # 0 /\ name = window_name(instances[current])
         THEN "WindowLoadError"
         ELSE "ok"

\* Mutation: line 433 is missing, force does not lift the protection.
unload_window_status_noforce(name, force) ==
    IF name \notin DOMAIN windows
    THEN "WindowLoadError"
    ELSE IF current # 0 /\ name = window_name(instances[current])
         THEN "WindowError"
         ELSE "ok"

\* Mutation: line 435 compares with the name of last_window.
unload_window_status_lastguard(name, force) ==
    IF name \notin DOMAIN windows
    THEN "WindowLoadError"
    ELSE IF ~ force /\ last # 0 /\ name = window_name(instances[last])
         THEN "WindowError"
         ELSE "ok"

\* Mutation: the test of lines 432-435 comes before the test of line 425.
unload_window_status_activefirst(name, force) ==
    IF ~ force /\ current # 0 /\ name = window_name(instances[current])
    THEN "WindowError"
    ELSE IF name \notin DOMAIN windows
         THEN "WindowLoadError"
         ELSE "ok"

\* Lines 425-441: the exception unload_window raises, or "ok".
unload_window_status(name, force) ==
    IF name \notin DOMAIN windows
    THEN "WindowLoadError"
    ELSE IF ~ force /\ current # 0 /\ name = window_name(instances[current])
         THEN "WindowError"
         ELSE "ok"

\* Line 443.
unload_window_cls(name) == instances[windows[name]]

\* Mutation: line 444 empties the registry.
unload_window_del_clear(name) == EmptyDict

\* Line 444.
unload_window_del(name) == DictDel(windows, name)

UnloadWindow(name, force) ==
    /\ log' = CallLog
    /\ nested' = CallNested
    /\ LET status == unload_window_status(name, force) IN
       IF status # "ok"
       THEN /\ ret' = ManagerError(Ret("unload_window", name, <<>>, force,
                                       status, "", 0))
            /\ raised' = TRUE
            /\ UNCHANGED windows
       ELSE /\ ret' = Ret("unload_window", name, <<>>, force, "ok",
                          unload_window_cls(name), 0)
            /\ raised' = CallRaised
            /\ windows' = unload_window_del(name)
    /\ UNCHANGED <<instances, current, last, hooks, stack, changes,
                   transitions, is_running, global_on_update>>

\* ------------------------------------------------------------- load_windows
LoadWindows(types, force) ==
    /\ stack' = Append(stack, Frame("load_windows", "iterate", "", types, force))
    /\ log' = CallLog
    /\ nested' = CallNested
    /\ ret' = NoRet
    /\ raised' = CallRaised
    /\ UNCHANGED <<windows, instances, current, last, hooks, changes,
                   transitions, is_running, global_on_update>>

\* Mutation: lines 344-349 are missing, a loaded name is loaded again.
load_windows_check_noloaded(window, force) ==
    IF ~ issubclass_Window(window) THEN "WindowError" ELSE "ok"

\* Lines 337-349: the exception raised for the window type, or "ok".
load_windows_check(window, force) ==
    IF ~ issubclass_Window(window)
    THEN "WindowError"
    ELSE IF ~ force /\ window_name(window) \in DOMAIN windows
         THEN "WindowLoadError"
         ELSE "ok"

\* Line 336, the loop is exhausted: load_windows returns None.
LoadReturn ==
    /\ AtPc("load_windows", "iterate")
    /\ Top.types = <<>>
    /\ stack' = Pop(stack)
    /\ ret' = Ret("load_windows", "", Top.args, Top.force, "ok", "", 0)
    /\ UNCHANGED <<windows, instances, current, last, hooks, log, nested,
                   raised, changes,
                   transitions, is_running, global_on_update>>

\* Lines 337-349 raise.
LoadReject ==
    /\ AtPc("load_windows", "iterate")
    /\ Top.types # <<>>
    /\ load_windows_check(Head(Top.types), Top.force) # "ok"
    /\ RaiseError(load_windows_check(Head(Top.types), Top.force))
    /\ UNCHANGED <<windows, instances, current, last, hooks, nested, changes,
                   transitions, is_running, global_on_update>>

\* Line 351, the constructor raises.
LoadConstructorRaises ==
    /\ AtPc("load_windows", "iterate")
    /\ Top.types # <<>>
    /\ load_windows_check(Head(Top.types), Top.force) = "ok"
    /\ Raise("ConstructorError")
    /\ UNCHANGED <<windows, instances, current, last, hooks, nested, changes,
                   transitions, is_running, global_on_update>>

\* Mutation: line 351 keeps the entry of a name that is loaded (setdefault).
load_windows_store_keep(window, inst) ==
    IF window_name(window) \in DOMAIN windows
    THEN windows
    ELSE DictSet(windows, window_name(window), inst)

\* Line 351: the new instance is stored under its name.
load_windows_store(window, inst) == DictSet(windows, window_name(window), inst)

LoadStore ==
    /\ AtPc("load_windows", "iterate")
    /\ Top.types # <<>>
    /\ load_windows_check(Head(Top.types), Top.force) = "ok"
    /\ Len(instances) < MaxInst
    /\ LET inst == Len(instances) + 1 IN
       /\ instances' = Append(instances, Head(Top.types))
       /\ windows' = load_windows_store(Head(Top.types), inst)
       /\ log' = Append(log, Event("__init__", inst, 0))
    /\ stack' = SetTop(stack, [Top EXCEPT !.pc = "global_on_setup"])
    /\ UNCHANGED <<current, last, hooks, ret, nested, raised, changes,
                   transitions, is_running, global_on_update>>

\* Mutation: line 354 is missing, the window's own on_setup is not called.
load_windows_next_skip(pc) ==
    CASE pc = "global_on_setup" -> "next"
      [] pc = "on_setup" -> "next"

\* The statement that follows each setup statement of load_windows.
load_windows_next(pc) ==
    CASE pc = "global_on_setup" -> "on_setup"
      [] pc = "on_setup" -> "next"

\* Lines 353 and 354: the window is looked up in the registry.
load_windows_lookup(frame) == windows[window_name(Head(frame.types))]

\* Lines 352-353.
LoadGlobalSetup ==
    /\ AtPc("load_windows", "global_on_setup")
    /\ IF hooks["global_on_setup"] # NoHook
       THEN InvokeGlobal("global_on_setup", load_windows_lookup(Top), 0,
                         _GLOBAL_ON_SETUP_ARGS, load_windows_next(Top.pc))
       ELSE Skip(load_windows_next(Top.pc))
    /\ UNCHANGED <<windows, instances, current, last, hooks, nested, changes,
                   transitions, is_running, global_on_update>>

\* Line 354.
LoadSetup ==
    /\ AtPc("load_windows", "on_setup")
    /\ IF window_name(Head(Top.types)) \in DOMAIN windows
       THEN Invoke(Event("on_setup", load_windows_lookup(Top), 0),
                   load_windows_next(Top.pc))
       ELSE Raise("KeyError")
    /\ UNCHANGED <<windows, instances, current, last, hooks, nested, changes,
                   transitions, is_running, global_on_update>>

\* Line 336: the loop moves to the next window type.
LoadNext ==
    /\ AtPc("load_windows", "next")
    /\ stack' = SetTop(stack, [Top EXCEPT !.pc = "iterate", !.types = Tail(@)])
    /\ UNCHANGED <<windows, instances, current, last, hooks, log, ret, nested,
                   raised, changes,
                   transitions, is_running, global_on_update>>

\* ------------------------------------------------------------ reload_window
\* Lines 387-390: unload_window, whose exception propagates, then the call
\* of load_windows with the class unload_window returned.
ReloadWindow(name, force) ==
    /\ log' = CallLog
    /\ nested' = CallNested
    /\ LET status == unload_window_status(name, force) IN
       IF status # "ok"
       THEN /\ ret' = ManagerError(Ret("reload_window", name, <<>>, force,
                                       status, "", 0))
            /\ raised' = TRUE
            /\ UNCHANGED <<windows, stack>>
       ELSE /\ windows' = unload_window_del(name)
            /\ stack' = stack \o
                 << Frame("reload_window", "return", name, <<>>, force),
                    Frame("load_windows", "iterate", "",
                          <<unload_window_cls(name)>>, force) >>
            /\ ret' = NoRet
            /\ raised' = CallRaised
    /\ UNCHANGED <<instances, current, last, hooks, changes,
                   transitions, is_running, global_on_update>>

\* Line 391.
ReloadReturn ==
    /\ AtPc("reload_window", "return")
    /\ IF Top.name \in DOMAIN windows
       THEN /\ stack' = Pop(stack)
            /\ ret' = Ret("reload_window", Top.name, <<>>, Top.force, "ok", "",
                          windows[Top.name])
            /\ UNCHANGED <<log, raised>>
       ELSE Raise("KeyError")
    /\ UNCHANGED <<windows, instances, current, last, hooks, nested, changes,
                   transitions, is_running, global_on_update>>

\* ------------------------------------------------------------ specification
\* The steps of the methods in progress and of the running hooks.
Step ==
    \/ ChangeGlobalLeave
    \/ ChangeLeave
    \/ ChangeGlobalEnter
    \/ ChangeEnter
    \/ ChangeReturn
    \/ LoadReturn
    \/ LoadReject
    \/ LoadConstructorRaises
    \/ LoadStore
    \/ LoadGlobalSetup
    \/ LoadSetup
    \/ LoadNext
    \/ ReloadReturn
    \/ HookReturn
    \/ HookRaise

\* The calls the host application makes.
HostCall ==
    \/ \E h \in HookNames, v \in Callables : Host /\ SetGlobalHook(h, v)
    \/ \E n \in Names : Host /\ ChangeWindow(n)
    \/ \E n \in Names, f \in BOOLEAN : Host /\ UnloadWindow(n, f)
    \/ \E t \in Types, f \in BOOLEAN : Host /\ LoadWindows(<<t>>, f)
    \/ \E n \in Names, f \in BOOLEAN : Host /\ ReloadWindow(n, f)
    \/ \E v \in 0..Len(instances) : Host /\ SetCurrentWindow(v)
    \/ \E v \in 0..Len(instances) : Host /\ SetLastWindow(v)
    \/ \E v \in {EmptyDict, windows} : Host /\ SetWindowMap(v)

\* The calls a running hook makes.
HookCall ==
    \/ \E n \in Names : InHook /\ ChangeWindow(n)
    \/ \E n \in Names, f \in BOOLEAN : InHook /\ UnloadWindow(n, f)
    \/ \E t \in Types, f \in BOOLEAN : InHook /\ LoadWindows(<<t>>, f)
    \/ \E n \in Names, f \in BOOLEAN : InHook /\ ReloadWindow(n, f)

Next == HostCall \/ HookCall \/ Step

Spec == Init /\ [][Next]_vars

\* The host assigns callables of every signature to the global hooks.
SetterNext == \E h \in HookNames, v \in Signatures : SetGlobalHook(h, v)

SetterSpec == Init /\ [][SetterNext]_vars

\* The host and the hooks call the manager without force=True.
HostCallNoForce ==
    \/ \E h \in HookNames, v \in Callables : Host /\ SetGlobalHook(h, v)
    \/ \E n \in Names : Host /\ ChangeWindow(n)
    \/ \E n \in Names : Host /\ UnloadWindow(n, FALSE)
    \/ \E t \in Types : Host /\ LoadWindows(<<t>>, FALSE)
    \/ \E n \in Names : Host /\ ReloadWindow(n, FALSE)

HookCallNoForce ==
    \/ \E n \in Names : InHook /\ ChangeWindow(n)
    \/ \E n \in Names : InHook /\ UnloadWindow(n, FALSE)
    \/ \E t \in Types : InHook /\ LoadWindows(<<t>>, FALSE)
    \/ \E n \in Names : InHook /\ ReloadWindow(n, FALSE)

NextNoForce == HostCallNoForce \/ HookCallNoForce \/ Step

SpecNoForce == Init /\ [][NextNoForce]_vars

\* The host loads several window types with one call of load_windows; the
\* hooks do not call the manager.
BulkArgs == UNION { [1..n -> Types] : n \in 1..MaxBulk }

BulkHostCall ==
    \/ \E v \in Callables : Host /\ SetGlobalHook("global_on_setup", v)
    \/ \E ts \in BulkArgs, f \in BOOLEAN : Host /\ LoadWindows(ts, f)
    \/ \E n \in Names : Host /\ UnloadWindow(n, FALSE)

BulkStep ==
    \/ LoadReturn
    \/ LoadReject
    \/ LoadConstructorRaises
    \/ LoadStore
    \/ LoadGlobalSetup
    \/ LoadSetup
    \/ LoadNext
    \/ HookReturn
    \/ HookRaise

BulkNext == BulkHostCall \/ BulkStep

BulkSpec == Init /\ [][BulkNext]_vars

\* ------------------------------------------------------------------ App.run
\* App.__init__: the defaults of min_height and min_width.
min_height == 20
min_width == 20

\* Terminal sizes screen.getmaxyx() may report.
Sizes == {min_height - 1, min_height}

\* _pre_update: False when the terminal is smaller than the minimum.
_pre_update(height, width) == ~ (height < min_height \/ width < min_width)

\* The on_update calls made since the outermost call began.
Updates == Len(SelectSeq(log, LAMBDA e : e.h = "on_update"))

\* The manager's global on_update hook is assigned.
SetGlobalOnUpdate(value) ==
    /\ global_on_update' = value
    /\ log' = CallLog
    /\ nested' = CallNested
    /\ ret' = Ret("global_on_update", "", value, FALSE, "ok", "", 0)
    /\ raised' = CallRaised
    /\ UNCHANGED <<windows, instances, current, last, hooks, stack, changes,
                   transitions, is_running>>

\* Window.curses_quit, called by a running hook.
CursesQuit ==
    /\ AtPc("hook", "run")
    /\ is_running' = FALSE
    /\ log' = IF is_running THEN Append(log, Event("curses_quit", 0, 0)) ELSE log
    /\ UNCHANGED <<windows, instances, current, last, hooks, stack, ret, nested,
                   raised, changes, transitions, global_on_update>>

\* Mutation: line 62 is missing.
run_no_window_never == FALSE

\* Line 62.
run_no_window == current = 0

\* Lines 62-66: run fails without a current window, else enters the loop.
Run ==
    /\ log' = CallLog
    /\ nested' = CallNested
    /\ IF run_no_window
       THEN /\ ret' = Ret("run", "", <<>>, FALSE, "RuntimeError", "", 0)
            /\ raised' = TRUE
            /\ UNCHANGED stack
       ELSE /\ stack' = Append(stack, Frame("run", "while", "", <<>>, FALSE))
            /\ ret' = NoRet
            /\ raised' = CallRaised
    /\ UNCHANGED <<windows, instances, current, last, hooks, changes,
                   transitions, is_running, global_on_update>>

\* Mutation: the loop does not test is_running.
run_while_forever == TRUE

\* Line 68.
run_while == is_running

\* Line 68, the condition holds: an iteration begins.
RunLoop ==
    /\ AtPc("run", "while")
    /\ run_while
    /\ Updates < MaxUpdates
    /\ Skip("pre_update")
    /\ UNCHANGED <<windows, instances, current, last, hooks, nested, changes,
                   transitions, is_running, global_on_update>>

\* Line 68, the condition fails: run returns None.
RunReturn ==
    /\ AtPc("run", "while")
    /\ ~ run_while
    /\ stack' = Pop(stack)
    /\ ret' = Ret("run", "", <<>>, FALSE, "ok", "", 0)
    /\ UNCHANGED <<windows, instances, current, last, hooks, log, nested,
                   raised, changes, transitions, is_running, global_on_update>>

\* Lines 69-73: the iteration goes on when the terminal is large enough.
RunPreUpdate(height, width) ==
    /\ AtPc("run", "pre_update")
    /\ IF _pre_update(height, width)
       THEN Skip("global_on_update")
       ELSE Skip("while")
    /\ UNCHANGED <<windows, instances, current, last, hooks, nested, changes,
                   transitions, is_running, global_on_update>>

\* Lines 74-75.
RunGlobalUpdate ==
    /\ AtPc("run", "global_on_update")
    /\ IF global_on_update # NoHook
       THEN IF BindsPositional(global_on_update, 1)
            THEN Invoke(Event("global_on_update", 0, 0), "on_update")
            ELSE Raise("TypeError")
       ELSE Skip("on_update")
    /\ UNCHANGED <<windows, instances, current, last, hooks, nested, changes,
                   transitions, is_running, global_on_update>>

\* Line 81.
RunUpdate ==
    /\ AtPc("run", "on_update")
    /\ Invoke(Event("on_update", current, 0), "while")
    /\ UNCHANGED <<windows, instances, current, last, hooks, nested, changes,
                   transitions, is_running, global_on_update>>

\* The host loads and activates windows, installs the global on_update hook
\* and runs the application; hooks change the window or quit.
AppHostCall ==
    \/ \E t \in Types : Host /\ LoadWindows(<<t>>, FALSE)
    \/ \E n \in Names : Host /\ ChangeWindow(n)
    \/ \E v \in Callables : Host /\ SetGlobalOnUpdate(v)
    \/ Host /\ Run

AppHookCall ==
    \/ \E n \in Names : InHook /\ ChangeWindow(n)
    \/ CursesQuit

AppStep ==
    \/ ChangeGlobalLeave
    \/ ChangeLeave
    \/ ChangeGlobalEnter
    \/ ChangeEnter
    \/ ChangeReturn
    \/ LoadReturn
    \/ LoadReject
    \/ LoadConstructorRaises
    \/ LoadStore
    \/ LoadGlobalSetup
    \/ LoadSetup
    \/ LoadNext
    \/ RunLoop
    \/ RunReturn
    \/ \E height \in Sizes, width \in Sizes : RunPreUpdate(height, width)
    \/ RunGlobalUpdate
    \/ RunUpdate
    \/ HookReturn
    \/ HookRaise

AppNext == AppHostCall \/ AppHookCall \/ AppStep

AppSpec == Init /\ [][AppNext]_vars

\* ================================================================= claims
NameOf(inst) == window_name(instances[inst])

\* current_window refers to a window whose name is not a key of the registry.
Dangling == IF current = 0 THEN FALSE ELSE NameOf(current) \notin DOMAIN windows

\* The step invokes user code: it appends one event to the log.
Invokes == Len(log') = Len(log) + 1 /\ SubSeq(log', 1, Len(log)) = log

Invoked == log'[Len(log')]

OnSetups(inst) == {k \in 1..Len(log) : log[k] = Event("on_setup", inst, 0)}

Constructed == {log[k].a : k \in {j \in 1..Len(log) : log[j].h = "__init__"}}

\* The outermost call has returned normally and no hook called the manager.
Returned(op) ==
    /\ stack = <<>>
    /\ ret.op = op
    /\ ret.status = "ok"
    /\ nested = 0

\* C1 as stated: in every reachable state, forced calls included, a non-empty
\* current_window has its name among the keys of the registry.
C1_NoDanglingCurrent ==
    current # 0 => NameOf(current) \in DOMAIN windows

\* C1 amended: the name of a non-empty current_window stops being a key of
\* the registry only in a step that is unload_window or reload_window with
\* force=true; without such a call it is a key in every reachable state.
C1_DanglingOnlyByForce ==
    [][ (Dangling' /\ ~ Dangling) =>
            \E n \in Names : UnloadWindow(n, TRUE) \/ ReloadWindow(n, TRUE) ]_vars

C1_Witness ==
    /\ stack = <<>>
    /\ ret.op = "unload_window" /\ ~ ret.force /\ ret.status = "ok"
    /\ current # 0
    /\ ~ Dangling

\* C2: with A current, B loaded and both global hooks installed, a
\* change_window("B") that returns invokes exactly global on_leave(A, B),
\* A.on_leave(B), global on_enter(B, A), B.on_enter(A), in this order.
C2_TransitionOrder ==
    ( /\ Returned("change_window")
      /\ last # 0
      /\ hooks["global_on_leave"] # NoHook
      /\ hooks["global_on_enter"] # NoHook )
    => /\ ret.name \in DOMAIN windows
       /\ current = windows[ret.name]
       /\ log = << Event("global_on_leave", last, current),
                   Event("on_leave", last, current),
                   Event("global_on_enter", current, last),
                   Event("on_enter", current, last) >>

C2_Witness ==
    /\ Returned("change_window")
    /\ last # 0
    /\ last # current
    /\ hooks["global_on_leave"] # NoHook
    /\ hooks["global_on_enter"] # NoHook
    /\ Len(log) = 4

\* C3: load_windows with force=false, reaching a window type whose name is a
\* key of the registry, raises WindowLoadError; it constructs no instance,
\* invokes no hook and leaves the registry as it was.
C3_DuplicateLoadFails ==
    [][ ( /\ AtPc("load_windows", "iterate")
          /\ Top.types # <<>>
          /\ ~ Top.force
          /\ issubclass_Window(Head(Top.types))
          /\ window_name(Head(Top.types)) \in DOMAIN windows )
        => /\ ret'.op = "load_windows"
           /\ ret'.status = "WindowLoadError"
           /\ stack' = Pop(stack)
           /\ UNCHANGED <<windows, instances, log>> ]_vars

C3_Witness ==
    /\ stack = <<>>
    /\ ret.op = "load_windows" /\ ~ ret.force /\ ret.status = "WindowLoadError"
    /\ window_name(ret.args[1]) \in DOMAIN windows

\* C4 as stated: whenever current_window is non-empty,
\* unload_window(current_window.name, force=false) raises WindowError and
\* leaves the registry and both pointers unchanged.
C4_UnloadCurrentRefused ==
    [][ \A n \in Names :
          ( /\ current # 0
            /\ n = NameOf(current)
            /\ UnloadWindow(n, FALSE) )
          => /\ ret'.status = "WindowError"
             /\ UNCHANGED <<windows, current, last>> ]_vars

\* C4 amended: whenever current_window is non-empty and its name is a key of
\* the registry, unload_window(current_window.name, force=false) raises
\* WindowError and leaves the registry and both pointers unchanged.
C4_UnloadLoadedCurrentRefused ==
    [][ \A n \in Names :
          ( /\ current # 0
            /\ n = NameOf(current)
            /\ n \in DOMAIN windows
            /\ UnloadWindow(n, FALSE) )
          => /\ ret'.status = "WindowError"
             /\ UNCHANGED <<windows, current, last>> ]_vars

C4_Witness ==
    /\ ret.op = "unload_window" /\ ~ ret.force /\ ret.status = "WindowError"
    /\ current # 0
    /\ ret.name = NameOf(current)
    /\ ret.name \in DOMAIN windows

\* C5: unload_window(name, force=true) on the loaded name of the current
\* window returns the class of the removed instance, removes the entry and
\* leaves current_window, whose name is then no key of the registry.
C5_ForcedUnloadOfCurrent ==
    [][ \A n \in Names :
          ( /\ current # 0
            /\ n = NameOf(current)
            /\ n \in DOMAIN windows
            /\ UnloadWindow(n, TRUE) )
          => /\ ret'.status = "ok"
             /\ ret'.cls = instances[windows[n]]
             /\ windows' = DictDel(windows, n)
             /\ current' = current
             /\ Dangling' ]_vars

C5_Witness ==
    /\ ret.op = "unload_window" /\ ret.force /\ ret.status = "ok"
    /\ current # 0
    /\ ret.name = NameOf(current)
    /\ Dangling

\* C6: change_window(name) with name not a key of the registry raises
\* WindowError, invokes no hook and leaves both pointers and the registry
\* unchanged.
C6_ChangeToAbsentFails ==
    [][ \A n \in Names :
          ( n \notin DOMAIN windows /\ ChangeWindow(n) )
          => /\ ret'.op = "change_window"
             /\ ret'.status = "WindowError"
             /\ stack' = stack
             /\ log' \in {log, <<>>}
             /\ UNCHANGED <<windows, current, last>> ]_vars

C6_Witness ==
    /\ ret.op = "change_window" /\ ret.status = "WindowError"
    /\ instances = <<>>
    /\ windows = EmptyDict

C8_PreviousEmptyOnlyAtFirst ==
    [][ /\ current # 0 => current' # 0
        /\ ( /\ Invokes
             /\ Invoked.h \in {"global_on_enter", "on_enter"}
             /\ changes' = 2 )
           => Invoked.b # 0 ]_vars

C8_Witness ==
    /\ stack = <<>>
    /\ changes = 2
    /\ ret.op = "change_window" /\ ret.status = "ok"
    /\ \E k \in 1..Len(log) : log[k].h = "on_enter" /\ log[k].b # 0

\* C9: a load_windows call of one window type that returns has constructed
\* and stored the instance, then invoked global on_setup (if installed) with
\* it, then its own on_setup; and whenever a setup hook is invoked, the
\* instance it is invoked with is the registry entry under its name.
C9_SetupOrder ==
    [][ /\ ( /\ LoadReturn
             /\ Len(stack) = 1
             /\ nested = 0
             /\ Len(Top.args) = 1 )
           => LET inst == Len(instances) IN
              /\ instances[inst] = Top.args[1]
              /\ windows[NameOf(inst)] = inst
              /\ log = << Event("__init__", inst, 0) >>
                    \o (IF hooks["global_on_setup"] # NoHook
                        THEN << Event("global_on_setup", inst, 0) >> ELSE << >>)
                    \o << Event("on_setup", inst, 0) >>
        /\ ( Invokes /\ Invoked.h \in {"global_on_setup", "on_setup"} )
           => /\ NameOf(Invoked.a) \in DOMAIN windows'
              /\ windows'[NameOf(Invoked.a)] = Invoked.a ]_vars

C9_Witness ==
    /\ Returned("load_windows")
    /\ hooks["global_on_setup"] # NoHook
    /\ Len(log) = 3
    /\ log[3] = Event("on_setup", windows[window_name(ret.args[1])], 0)

\* C10: every instance load_windows or reload_window constructs has its own
\* on_setup invoked exactly once, also when a hook calls the manager: no
\* instance is set up twice, none is set up by a call that did not construct
\* it, and a call that raised nothing has set up every instance it constructed.
C10_SetupExactlyOnce ==
    ~ raised =>
      /\ \A inst \in 1..Len(instances) : Cardinality(OnSetups(inst)) <= 1
      /\ \A inst \in 1..Len(instances) : OnSetups(inst) # {} => inst \in Constructed
      /\ stack = <<>> => \A inst \in Constructed : Cardinality(OnSetups(inst)) = 1

\* The callable has a keyword-only or a variadic-keyword parameter.
HasKeywordParam(signature) ==
    \E j \in 1..Len(signature) : signature[j] \in {KEYWORD_ONLY, VAR_KEYWORD}

\* The number of arguments the manager calls each global hook with.
Arity(hook) ==
    CASE hook = "global_on_setup" -> 1
      [] hook = "global_on_enter" -> 2
      [] hook = "global_on_leave" -> 2

\* C11: assigning to a global hook a callable with a keyword-only or a
\* variadic-keyword parameter raises TypeError, whatever the number of its
\* parameters, and leaves the hook as it was.
C11_KeywordShapeRejected ==
    [][ LET h == ret'.op
            v == ret'.args
        IN ( /\ h \in HookNames
             /\ HasKeywordParam(v)
             /\ SetGlobalHook(h, v) )
           => /\ ret'.status = "TypeError"
              /\ hooks' = hooks ]_vars

\* C12: assigning to a global hook a callable without keyword-only and
\* variadic-keyword parameters succeeds exactly when the number of its
\* parameters is the hook's arity (1, 2, 2); a rejected assignment raises
\* TypeError and leaves the hook installed before, or none, in place.
C12_ArityDecides ==
    [][ LET h == ret'.op
            v == ret'.args
        IN ( /\ h \in HookNames
             /\ ~ HasKeywordParam(v)
             /\ SetGlobalHook(h, v) )
           => IF Len(v) = Arity(h)
              THEN /\ ret'.status = "ok"
                   /\ hooks' = [hooks EXCEPT ![h] = v]
              ELSE /\ ret'.status = "TypeError"
                   /\ hooks' = hooks ]_vars

C12_Witness ==
    /\ ret.op = "global_on_setup"
    /\ ret.status = "TypeError"
    /\ ret.args = <<POSITIONAL_OR_KEYWORD, POSITIONAL_OR_KEYWORD>>
    /\ hooks["global_on_setup"] = <<POSITIONAL_OR_KEYWORD>>
    /\ hooks["global_on_enter"] = <<POSITIONAL_OR_KEYWORD, POSITIONAL_OR_KEYWORD>>

ReadOnlyNames == {"current_window", "last_window", "window_map"}

\* C13 as stated: both pointers change only in a change_window call, a call
\* that fails leaves them as they were before it, and a direct assignment to
\* current_window, last_window or window_map raises without changing state.
\* The first change_window call that finds its window starts from both
\* pointers None; when it ends with an exception they are None again.
C13_PointersOnlyBySuccess ==
    [][ /\ (current' # current \/ last' # last)
           => \E n \in Names : ChangeWindow(n)
        /\ ( /\ stack # <<>> /\ stack' = <<>>
             /\ ret'.op = "change_window"
             /\ ret'.status # "ok"
             /\ nested' = 0
             /\ changes' = 1 )
           => current' = 0 /\ last' = 0
        /\ ( stack = <<>> /\ ret'.op \in ReadOnlyNames )
           => /\ ret'.status = "ValueError"
              /\ UNCHANGED <<windows, instances, current, last, hooks, stack>>
      ]_vars

\* C13 amended: both pointers change only in the step of change_window that
\* has found its window (lines 269-270), whether or not a hook of that call
\* raises afterwards; every other step, of any operation, failed or not,
\* leaves them unchanged; and a direct assignment to current_window,
\* last_window or window_map raises ValueError without changing state.
C13_PointersOnlyByChange ==
    [][ /\ (current' # current \/ last' # last)
           => \E n \in Names : n \in DOMAIN windows /\ ChangeWindow(n)
        /\ ( stack = <<>> /\ ret'.op \in ReadOnlyNames )
           => /\ ret'.status = "ValueError"
              /\ UNCHANGED <<windows, instances, current, last, hooks, stack>>
      ]_vars

C13_Witness ==
    /\ ret.op = "current_window"
    /\ ret.status = "ValueError"
    /\ current # 0
    /\ last # 0
    /\ current # last

\* C14: in every state reached by calls without force=True, calls made by
\* hooks included, a non-empty current_window has its name among the keys of
\* the registry and the entry under that name is current_window itself.
C14_CurrentIsRegistered ==
    current # 0 =>
        /\ NameOf(current) \in DOMAIN windows
        /\ windows[NameOf(current)] = current

\* A hook has unloaded and loaded again a window other than the current one
\* while change_window was in progress.
C14_Witness ==
    /\ current # 0
    /\ stack # <<>>
    /\ stack[1].op = "change_window"
    /\ nested > 0
    /\ Len(instances) = MaxInst
    /\ \E n \in DOMAIN windows : windows[n] # current
    /\ ret.op \in {"load_windows", "reload_window"}
    /\ ret.status = "ok"

\* C15: in every reachable state a non-empty last_window is an entry of the
\* registry, under its own name.
C15_LastIsRegistered ==
    last # 0 =>
        /\ NameOf(last) \in DOMAIN windows
        /\ windows[NameOf(last)] = last

\* The exceptions the unload step of reload_window raises.
UnloadErrors == {"WindowLoadError", "WindowError"}

\* C16: when the unload step of reload_window has succeeded and its load step
\* fails, by the constructor or by a setup hook raising, the exception
\* reaches the caller and the window's name is absent from the registry; when
\* the unload step fails, the registry is left exactly as it was.
C16_ReloadNotAtomic ==
    [][ /\ ( /\ stack # <<>> /\ stack' = <<>>
             /\ nested' = 0
             /\ ret'.op = "reload_window"
             /\ ret'.status \in {"ConstructorError", "HookError"} )
           => ret'.name \notin DOMAIN windows'
        /\ \A n \in Names, f \in BOOLEAN :
             ( ReloadWindow(n, f) /\ unload_window_status(n, f) # "ok" )
             => /\ ret'.status = unload_window_status(n, f)
                /\ ret'.status \in UnloadErrors
                /\ UNCHANGED <<windows, instances, stack>>
      ]_vars

\* C17: reload_window(name, force) behaves as unload_window(name, force)
\* followed by load_windows(returned class, force).  Its first step has the
\* outcome of unload_window: the same exception and nothing changed, or the
\* entry removed and load_windows called with the class of the removed
\* instance and the same force, both pointers untouched.  The setup hooks and
\* the exceptions are then those of that load_windows call; and when that
\* call returns, as the composition then has, reload_window returns the
\* entry under the name, an instance constructed by this call.
C17_ReloadIsUnloadThenLoad ==
    [][ /\ \A n \in Names, f \in BOOLEAN :
             ReloadWindow(n, f) =>
               IF n \notin DOMAIN windows
               THEN /\ ret'.status = "WindowLoadError"
                    /\ UNCHANGED <<windows, instances, current, last, stack>>
               ELSE IF ~ f /\ current # 0 /\ n = NameOf(current)
               THEN /\ ret'.status = "WindowError"
                    /\ UNCHANGED <<windows, instances, current, last, stack>>
               ELSE /\ windows' = DictDel(windows, n)
                    /\ UNCHANGED <<instances, current, last>>
                    /\ Len(stack') = Len(stack) + 2
                    /\ stack'[Len(stack')] =
                         Frame("load_windows", "iterate", "",
                               <<instances[windows[n]]>>, f)
        /\ ( /\ Len(stack) >= 2
             /\ stack[Len(stack) - 1].op = "reload_window"
             /\ Len(stack') < Len(stack) )
           => \/ LoadReturn
              \/ /\ Len(stack') = Len(stack) - 2
                 /\ ret'.status \in {"ConstructorError", "TypeError", "KeyError"}
        /\ AtPc("reload_window", "return")
           => /\ ret'.status = "ok"
              /\ Top.name \in DOMAIN windows
              /\ ret'.inst = windows[Top.name]
              /\ Len(stack) = 1 => ret'.inst \in Constructed
      ]_vars

\* C18: unload_window(name) and reload_window(name) with name not a key of
\* the registry raise WindowLoadError, with force=True and with force=False,
\* also when name is the name of the current window, and leave the registry
\* and both pointers unchanged.
C18_NotLoadedFirst ==
    [][ \A n \in Names, f \in BOOLEAN :
          ( /\ n \notin DOMAIN windows
            /\ (UnloadWindow(n, f) \/ ReloadWindow(n, f)) )
          => /\ ret'.status = "WindowLoadError"
             /\ ret'.name = n
             /\ UNCHANGED <<windows, instances, current, last, stack>> ]_vars

C18_Witness ==
    /\ ret.op = "reload_window"
    /\ ret.status = "WindowLoadError"
    /\ ~ ret.force
    /\ current # 0
    /\ ret.name = NameOf(current)
    /\ ret.name \notin DOMAIN windows

\* C19: an unload_window(name) that returns removes the entry of name and no
\* other, invokes no hook, and returns the class of the removed instance; the
\* class is a window type whose name is name and is not loaded any more, so
\* that load_windows of it is not refused and stores under name again.
C19_UnloadReturnsType ==
    [][ \A n \in Names, f \in BOOLEAN :
          ( UnloadWindow(n, f) /\ ret'.status = "ok" )
          => /\ n \in DOMAIN windows
             /\ DOMAIN windows' = DOMAIN windows \ {n}
             /\ \A m \in DOMAIN windows' : windows'[m] = windows[m]
             /\ stack' = stack
             /\ log' \in {log, <<>>}
             /\ ret'.cls = instances[windows[n]]
             /\ issubclass_Window(ret'.cls)
             /\ window_name(ret'.cls) \notin DOMAIN windows'
             /\ DOMAIN DictSet(windows', window_name(ret'.cls), 0)
                  = DOMAIN windows ]_vars

C19_Witness ==
    /\ stack = <<>>
    /\ ret.op = "unload_window"
    /\ ret.status = "ok"
    /\ ret.name = "Game"
    /\ ret.cls = "GameWindow"
    /\ DOMAIN windows = {"Menu"}

\* C20: load_windows with force=True, reaching a window type whose name is a
\* key of the registry, does not raise WindowLoadError: it constructs an
\* instance and stores it in place of the entry, leaving both pointers, so
\* that a current_window of that name is no longer the entry; and a call of
\* one window type that returns has invoked the setup hooks with the new entry.
C20_ForcedLoadReplaces ==
    [][ /\ ( /\ AtPc("load_windows", "iterate")
             /\ Top.types # <<>>
             /\ Top.force
             /\ issubclass_Window(Head(Top.types))
             /\ window_name(Head(Top.types)) \in DOMAIN windows )
           => LET n == window_name(Head(Top.types)) IN
              /\ ret'.status \notin {"WindowLoadError", "WindowError"}
              /\ UNCHANGED <<current, last>>
              /\ ret'.status # "ConstructorError"
                 => /\ instances' = Append(instances, Head(Top.types))
                    /\ windows' = [windows EXCEPT ![n] = Len(instances')]
                    /\ windows'[n] # windows[n]
                    /\ (current # 0 /\ NameOf(current) = n)
                       => windows'[n] # current'
        /\ ( /\ LoadReturn
             /\ Len(stack) = 1
             /\ nested = 0
             /\ Top.force
             /\ Len(Top.args) = 1 )
           => LET inst == windows[window_name(Top.args[1])] IN
              log = << Event("__init__", inst, 0) >>
                    \o (IF hooks["global_on_setup"] # NoHook
                        THEN << Event("global_on_setup", inst, 0) >> ELSE << >>)
                    \o << Event("on_setup", inst, 0) >>
      ]_vars

C20_Witness ==
    /\ Returned("load_windows")
    /\ ret.force
    /\ current # 0
    /\ NameOf(current) = window_name(ret.args[1])
    /\ windows[NameOf(current)] # current
    /\ log[Len(log)] = Event("on_setup", windows[NameOf(current)], 0)

\* The global transition hooks invoked since the outermost call began.
GlobalTransitionHooks ==
    SelectSeq(log, LAMBDA e : e.h \in {"global_on_leave", "global_on_enter"})

\* What a change_window call that returns has invoked of the global hooks.
ExpectedGlobalHooks ==
    (IF hooks["global_on_leave"] # NoHook
     THEN << Event("global_on_leave", last, current) >> ELSE << >>)
    \o (IF hooks["global_on_enter"] # NoHook
        THEN << Event("global_on_enter", current, last) >> ELSE << >>)

\* C21 as stated: a change_window call that returns, the first activation
\* and a change to the current window included, has invoked the installed
\* global on_leave once and the installed global on_enter once, on_leave
\* first; a change_window call that fails has invoked neither.
C21_GlobalHooksOncePerChange ==
    /\ Returned("change_window") => GlobalTransitionHooks = ExpectedGlobalHooks
    /\ ( /\ stack = <<>>
         /\ ret.op = "change_window"
         /\ ret.status # "ok"
         /\ nested = 0 )
       => GlobalTransitionHooks = << >>

\* C21 amended: a change_window call that returns has invoked the installed
\* global on_leave once and the installed global on_enter once, on_leave
\* first; a change_window call that fails because its name is not loaded has
\* invoked neither.
C21_GlobalHooksOncePerFoundChange ==
    /\ Returned("change_window") => GlobalTransitionHooks = ExpectedGlobalHooks
    /\ ( /\ stack = <<>>
         /\ ret.op = "change_window"
         /\ ret.status = "WindowError" )
       => GlobalTransitionHooks = << >>

\* A change to the window that is current already, both hooks installed.
C21_Witness ==
    /\ Returned("change_window")
    /\ current # 0
    /\ last = current
    /\ Len(GlobalTransitionHooks) = 2

\* C24: the step of change_window(name) that has found its window sets
\* last_window to the old current_window and current_window to the entry of
\* name without invoking a hook; the hook invoked first afterwards, global
\* on_leave or for want of it the old window's on_leave, and the old
\* window's on_leave after a global on_leave that did not call the manager,
\* find the entry of name as current_window and the old window as
\* last_window.
C24_PointersBeforeHooks ==
    [][ /\ \A n \in Names :
             ( n \in DOMAIN windows /\ ChangeWindow(n) )
             => /\ last' = current
                /\ current' = windows[n]
                /\ log' \in {log, <<>>}
                /\ AtPc("change_window", "global_on_leave")'
        /\ ( /\ Invokes
             /\ Invoked.h \in {"global_on_leave", "on_leave"}
             /\ nested = 0 )
           => /\ Top.op = "change_window"
              /\ current = windows[Top.name]
              /\ Invoked.a = last
              /\ Invoked.b = current
              /\ UNCHANGED <<current, last>>
              /\ Len(log) = (IF Invoked.h = "on_leave"
                                /\ hooks["global_on_leave"] # NoHook
                             THEN 1 ELSE 0)
      ]_vars

\* The old window's on_leave is running, after global on_leave.
C24_Witness ==
    /\ Len(stack) = 2
    /\ stack[1].op = "change_window"
    /\ nested = 0
    /\ Len(log) = 2
    /\ log[2].h = "on_leave"
    /\ last # 0
    /\ current # last
    /\ log[2] = Event("on_leave", last, current)
    /\ current = windows[stack[1].name]

\* The on_enter and on_leave calls a window instance received since the
\* outermost call began.
TransitionHooksOf(i) ==
    SelectSeq(log, LAMBDA e : e.h \in {"on_enter", "on_leave"} /\ e.a = i)

\* C25: when hooks call change_window themselves and nothing raises, the
\* on_enter and on_leave calls each window instance receives strictly
\* alternate.
C25_ReentrantAlternation ==
    ~ raised =>
        \A i \in 1..Len(instances) :
            \A k \in 1..(Len(TransitionHooksOf(i)) - 1) :
                TransitionHooksOf(i)[k].h # TransitionHooksOf(i)[k + 1].h

\* The hooks of a change from window a to itself, in order.
SelfChangeHooks(a) ==
    (IF hooks["global_on_leave"] # NoHook
     THEN << Event("global_on_leave", a, a) >> ELSE << >>)
    \o << Event("on_leave", a, a) >>
    \o (IF hooks["global_on_enter"] # NoHook
        THEN << Event("global_on_enter", a, a) >> ELSE << >>)
    \o << Event("on_enter", a, a) >>

\* C28: change_window with the name of the window that is current, that
\* window still being the entry of its name, is not rejected and sets
\* last_window and current_window both to that window; when it returns,
\* its hooks not having called the manager, it has invoked the window's
\* on_leave and then its on_enter, each with the window itself as argument
\* and each preceded by the installed global hook.
C28_ChangeToCurrent ==
    [][ /\ \A n \in Names :
             ( /\ n \in DOMAIN windows
               /\ current # 0
               /\ windows[n] = current
               /\ ChangeWindow(n) )
             => /\ last' = current
                /\ current' = current
                /\ ret' = NoRet
                /\ AtPc("change_window", "global_on_leave")'
        /\ ( /\ ChangeReturn
             /\ Len(stack) = 1
             /\ nested = 0
             /\ last = current )
           => /\ ret'.status = "ok"
              /\ log = SelfChangeHooks(current)
              /\ UNCHANGED <<current, last>>
      ]_vars

C28_Witness ==
    /\ Returned("change_window")
    /\ current # 0
    /\ last = current
    /\ windows[ret.name] = current
    /\ log = SelfChangeHooks(current)
    /\ Len(log) = 4

ManagerMethods ==
    {"change_window", "load_windows", "unload_window", "reload_window"}

\* The step raises WindowError or WindowLoadError out of a manager method.
ManagerFails ==
    /\ ret' # ret
    /\ ret'.op \in ManagerMethods
    /\ ret'.status \in {"WindowError", "WindowLoadError"}

\* The error raised carries the manager's last_window, which the failing
\* step leaves as it was.
CarriesLastWindow ==
    /\ DOMAIN ret'.error = {"last_state", "last_window"}
    /\ ret'.error.last_window = last
    /\ last' = last

\* C26 as stated: an error raised by change_window, load_windows,
\* unload_window or reload_window carries the manager's last_window, and
\* carries None when fewer than two change_window calls have returned.
C26_ErrorCarriesLastWindow ==
    [][ ManagerFails
        => /\ CarriesLastWindow
           /\ transitions < 2 => ret'.error.last_window = 0 ]_vars

\* C26 amended: an error raised by change_window, load_windows,
\* unload_window or reload_window carries the manager's last_window, and
\* carries None when fewer than two change_window calls have found their
\* window.
C26_ErrorCarriesLastFound ==
    [][ ManagerFails
        => /\ CarriesLastWindow
           /\ changes < 2 => ret'.error.last_window = 0 ]_vars

C26_Witness ==
    /\ stack = <<>>
    /\ ret.op \in ManagerMethods
    /\ ret.status \in {"WindowError", "WindowLoadError"}
    /\ transitions = 2
    /\ last # 0
    /\ last # current
    /\ ret.error.last_window = last

\* What load_windows invokes for the window it stores as instance i.
SetupHooks(i) ==
    << Event("__init__", i, 0) >>
    \o (IF hooks["global_on_setup"] # NoHook
        THEN << Event("global_on_setup", i, 0) >> ELSE << >>)
    \o << Event("on_setup", i, 0) >>

RECURSIVE BulkLog(_, _)
\* The invocations of a load_windows call that stored n windows, the first
\* of them as instance first.
BulkLog(first, n) ==
    IF n = 0 THEN << >> ELSE SetupHooks(first) \o BulkLog(first + 1, n - 1)

\* The step is the failure of the outermost load_windows call at its k-th
\* argument: the k - 1 arguments before it were constructed one after the
\* other in argument order, each set up before the next was constructed and
\* each stored under its name (the later one where two have the same name),
\* and the failure constructs, stores and sets up nothing more.
BulkFailsAt(k) ==
    LET args == Top.args
        base == Len(instances) - (k - 1)
    IN /\ ret'.status \in {"WindowError", "WindowLoadError"}
       /\ ret'.op = "load_windows"
       /\ ret'.args = args
       /\ stack' = << >>
       /\ UNCHANGED <<windows, instances, log>>
       /\ base >= 0
       /\ log = BulkLog(base + 1, k - 1)
       /\ \A i \in 1..(k - 1) :
            /\ instances[base + i] = args[i]
            /\ window_name(args[i]) \in DOMAIN windows
            /\ \/ windows[window_name(args[i])] = base + i
               \/ \E j \in (i + 1)..(k - 1) :
                    /\ window_name(args[j]) = window_name(args[i])
                    /\ Top.force
       /\ ( /\ ~ Top.force
            /\ \E i \in 1..(k - 1) : args[i] = args[k] )
          => ret'.status = "WindowLoadError"

\* C27: load_windows processes its arguments in order and is not atomic.
\* When the k-th argument fails validation the error is raised with the
\* first k - 1 windows stored and fully set up and the k-th and later ones
\* not loaded; a call without force that returns was given no window name
\* twice, so the same type given twice loads once and then fails with the
\* already-loaded error.
C27_BulkLoadNotAtomic ==
    [][ /\ ( LoadReject /\ Len(stack) = 1 )
           => BulkFailsAt(Len(Top.args) - Len(Top.types) + 1)
        /\ ( LoadReturn /\ Len(stack) = 1 /\ ~ Top.force )
           => \A i, j \in 1..Len(Top.args) :
                  window_name(Top.args[i]) = window_name(Top.args[j]) => i = j
      ]_vars

\* The same type was given twice without force: it is loaded once, set up,
\* and the call has failed with the already-loaded error.
C27_Witness ==
    /\ stack = << >>
    /\ ret.op = "load_windows"
    /\ ret.status = "WindowLoadError"
    /\ ~ ret.force
    /\ Len(ret.args) >= 2
    /\ ret.args[1] = ret.args[2]
    /\ log = SetupHooks(Len(instances))
    /\ windows[window_name(ret.args[1])] = Len(instances)

\* C22: run called while current_window is None fails at once with
\* RuntimeError: the loop is not entered and no user code is invoked.
C22_RunWithoutWindowFails ==
    [][ ( Host /\ current = 0 /\ Run )
        => /\ ret'.op = "run"
           /\ ret'.status = "RuntimeError"
           /\ stack' = << >>
           /\ log' = << >>
           /\ Updates' = 0 ]_vars

\* Windows are loaded, none was made current, and run has failed.
C22_Witness ==
    /\ stack = << >>
    /\ ret.op = "run"
    /\ ret.status = "RuntimeError"
    /\ current = 0
    /\ windows # EmptyDict
    /\ log = << >>

\* What one iteration of the loop invokes when the terminal is large enough.
IterationHooks ==
    (IF global_on_update # NoHook
     THEN << Event("global_on_update", 0, 0) >> ELSE << >>)
    \o << Event("on_update", current, 0) >>

RECURSIVE Repeat(_, _)
Repeat(seq, n) == IF n = 0 THEN << >> ELSE seq \o Repeat(seq, n - 1)

\* Where curses_quit set is_running to False.
QuitAt == CHOOSE q \in 1..Len(log) : log[q].h = "curses_quit"

\* C23: an iteration of the loop begins only while is_running is True and
\* the loop ends only when it is False at the loop test; an iteration whose
\* terminal is too small invokes nothing; on_update is invoked only by the
\* loop, on the window that is current at that moment, and is the last
\* call of its iteration.  When run returns, its hooks not having called
\* the manager, it has invoked the hooks of whole iterations only, and
\* after the curses_quit that stopped it nothing but the on_update of the
\* iteration whose global on_update hook called curses_quit.
C23_LoopTestsOncePerIteration ==
    [][ /\ RunLoop => is_running
        /\ RunReturn => ~ is_running
        /\ ( Invokes /\ Invoked.h = "on_update" )
           => /\ AtPc("run", "on_update")
              /\ current # 0
              /\ Invoked = Event("on_update", current, 0)
              /\ stack'[Len(stack)].pc = "while"
        /\ ( AtPc("run", "pre_update") /\ AtPc("run", "while")' )
           => UNCHANGED log
        /\ ( RunReturn /\ Len(stack) = 1 /\ nested = 0 )
           => /\ SelectSeq(log, LAMBDA e : e.h # "curses_quit")
                    = Repeat(IterationHooks, Updates)
              /\ Updates > 0
                 => /\ \E q \in 1..Len(log) : log[q].h = "curses_quit"
                    /\ QuitAt > 1
                    /\ SubSeq(log, QuitAt + 1, Len(log))
                          = IF log[QuitAt - 1].h = "global_on_update"
                            THEN << Event("on_update", current, 0) >>
                            ELSE << >>
      ]_vars

\* The global on_update hook of the second iteration called curses_quit;
\* the iteration was completed by on_update and the loop then ended.
C23_Witness ==
    /\ stack = << >>
    /\ ret.op = "run"
    /\ ret.status = "ok"
    /\ nested = 0
    /\ ~ is_running
    /\ Updates = 2
    /\ Len(log) = 5
    /\ log[4].h = "curses_quit"
    /\ log[5] = Event("on_update", current, 0)

====
